---- MODULE Spec2Model ----
(***************************************************************************)
(* The orbit camera and the cursor pick of src/src/main.rs.                *)
(*                                                                         *)
(* Numbers.  The program computes in f32.  The model keeps every quantity  *)
(* in fixed point so that the products of the code are exact:              *)
(*   angles (cam_pitch, cam_yaw)        micro-radians                      *)
(*   cam_distance                       millionths of a length unit        *)
(*   mouse deltas, scroll amounts       thousandths                        *)
(*   time.delta_seconds                 milliseconds                       *)
(*   NDC and projected coordinates      quarters (NdcOne stands for 1.0)   *)
(* so delta * delta_seconds is a number of millionths.  cam_pitch and      *)
(* cam_distance are f32 records [nan, v]: f32::max and f32::min, which the *)
(* clamp of update_camera is made of, treat NaN specially.                 *)
(***************************************************************************)
EXTENDS Integers, Sequences, FiniteSets, TLC

VARIABLES
    \* OrbitCamera component of the rotation centre (main.rs 35-42)
    cam_distance, cam_pitch, cam_yaw, cam_entity, light_entity,
    \* pose components written by update_camera
    pivot_rotation, cam_translation, cam_rotation, light_translation, light_transform,
    \* components of the camera entity this program only reads; cam_transform_of
    \* is the Translation, the Rotation and the parent's Rotation that the
    \* transform systems of the engine last computed the Transform from
    cam_transform, cam_projection, cam_transform_of,
    \* Events<MouseMotion>, Events<MouseWheel>, Events<CursorMoved>: the events
    \* the State readers (main.rs 12-20) have not read yet
    mouse_motion_events, mouse_wheel_events, cursor_moved_events,
    \* what the last run of process_user_input saw and decided
    keys, dt, manipulation, pre,
    \* the scene cursor_pick reads: meshes in query order, the primary window
    meshes, window,
    \* what the last run of cursor_pick did; view_of is what the Transform it
    \* inverted had been computed from
    ndc_cursor, tested, hits, panicked, picked, view_of,
    \* the arguments and the result of the last call of point_in_tri made on its own
    tri_args, tri_result,
    \* the cursor position and screen size of the last conversion to NDC made on its own
    ndc_args,
    \* the frame driver: the systems of the App in order, and the next one;
    \* last_cam is the last system that wrote the OrbitCamera
    schedule, pc, last_cam

camvars == <<cam_distance, cam_pitch, cam_yaw, cam_entity, light_entity>>
posevars == <<pivot_rotation, cam_translation, cam_rotation, light_translation, light_transform>>
readvars == <<cam_transform, cam_projection, cam_transform_of>>
inputvars == <<mouse_motion_events, mouse_wheel_events>>
decidedvars == <<keys, dt, manipulation, pre>>
scenevars == <<meshes, window>>
pickvars == <<ndc_cursor, tested, hits, panicked, picked, view_of>>
trivars == <<tri_args, tri_result, ndc_args>>
vars == <<camvars, posevars, readvars, inputvars, cursor_moved_events, decidedvars,
          scenevars, pickvars, trivars, schedule, pc, last_cam>>

----------------------------------------------------------------------------
(* Bounds of the model *)

\* events of one kind the host delivers between two ticks
MaxEvents == 2
\* |cam_yaw| stays below this many radians (the code never bounds yaw)
MaxYawRad == 1
\* meshes in the scene
MaxMeshes == 2
\* point_in_tri is called on its own with whole coordinates 0..GridMax
GridMax == 5
\* frames the App runs before it exits, where the whole frame is modelled
MaxFrames == 2
\* the conversion to NDC is made on its own for screens of 1..MaxScreen pixels a side
MaxScreen == 5

----------------------------------------------------------------------------
(* f32 *)

F(n) == [nan |-> FALSE, v |-> n]
NaN == [nan |-> TRUE, v |-> 0]

\* f32::max, f32::min: if one argument is NaN the other is returned
f32_max(a, b) == IF a.nan THEN b ELSE IF b.nan THEN a ELSE IF a.v >= b.v THEN a ELSE b
f32_min(a, b) == IF a.nan THEN b ELSE IF b.nan THEN a ELSE IF a.v <= b.v THEN a ELSE b
\* a -= n for a finite n
f32_sub(a, n) == IF a.nan THEN a ELSE F(a.v - n)

----------------------------------------------------------------------------
(* Program constants *)

\* 1f32.to_radians(), 179f32.to_radians(), in micro-radians
PitchMin == 17453
PitchMax == 3124139
\* 5. and 30., in millionths
DistMin == 5000000
DistMax == 30000000
zoom_scale == 50
look_scale == 1
\* OrbitCamera::default() and setup: 20., 30.0f32.to_radians(), 0.0
DefaultDistance == 20000000
DefaultPitch == 523599
DefaultYaw == 0
\* the 1.0 of NDC space, in quarters
NdcOne == 4

None == [kind |-> "None", x |-> 0, y |-> 0]
Vec2(x, y) == <<x, y>>

----------------------------------------------------------------------------
(* Inputs the host can deliver *)

\* MouseMotion.delta, thousandths
MotionDeltas == {Vec2(1000, 0), Vec2(-1000, 1000), Vec2(0, -1000)}
\* MouseWheel.y, thousandths
ScrollYs == {0, 100, -100, 1000}
\* Time.delta_seconds, milliseconds
DeltaSeconds == {0, 1000}

SeqsUpTo(S, n) == UNION {[1..k -> S] : k \in 0..n}

\* a variant of Last that takes the oldest element
Oldest(s) == s[1]

Last(s) == s[Len(s)]

----------------------------------------------------------------------------
(* The frame driver: App::build()...run() runs the systems in the order     *)
(* they were added, once per frame.                                         *)

\* A panic in a system ends the App: no system runs after it.
Turn(name) ==
    /\ ~panicked
    /\ pc \in 1..Len(schedule)
    /\ schedule[pc] = name
    /\ pc' = (pc % Len(schedule)) + 1
    /\ UNCHANGED <<schedule, trivars>>

\* What a run of process_user_input saw and decided is local to it: the next
\* frame starts without it.
NoKeys == [l_alt |-> FALSE, l_shift |-> FALSE, m_mouse |-> FALSE,
           mouse_movement |-> Vec2(0, 0), scroll_amount |-> 0]

next_frame ==
    /\ Turn("next_frame")
    /\ keys' = NoKeys
    /\ dt' = 0
    /\ manipulation' = None
    /\ pre' = [distance |-> cam_distance, pitch |-> cam_pitch, yaw |-> cam_yaw]
    /\ UNCHANGED <<camvars, posevars, readvars, inputvars, cursor_moved_events,
                   scenevars, pickvars, last_cam>>

\* Between two frames the input plugin appends the new events: at most
\* MaxEvents of them.
deliver_input_events ==
    /\ Turn("deliver_input_events")
    /\ \E ms \in SeqsUpTo(MotionDeltas, MaxEvents), ws \in SeqsUpTo(ScrollYs, MaxEvents) :
          /\ Len(ms) + Len(ws) <= MaxEvents
          /\ mouse_motion_events' = mouse_motion_events \o ms
          /\ mouse_wheel_events' = mouse_wheel_events \o ws
    /\ UNCHANGED <<camvars, posevars, readvars, cursor_moved_events, decidedvars,
                   scenevars, pickvars, last_cam>>

----------------------------------------------------------------------------
(* process_user_input *)

\* a variant of Classify that tests Shift before Alt
ClassifyShiftFirst(l_alt, l_shift, m_mouse, mouse_movement, scroll_amount) ==
    IF l_shift /\ m_mouse
        THEN [kind |-> "Rotate", x |-> mouse_movement[1], y |-> mouse_movement[2]]
    ELSE IF l_alt /\ m_mouse
        THEN [kind |-> "Pan", x |-> mouse_movement[1], y |-> mouse_movement[2]]
    ELSE IF m_mouse
        THEN [kind |-> "Orbit", x |-> mouse_movement[1], y |-> mouse_movement[2]]
    ELSE IF scroll_amount # 0 THEN [kind |-> "Zoom", x |-> 0, y |-> scroll_amount]
    ELSE [kind |-> "None", x |-> 0, y |-> 0]

\* a variant of Classify that tests the scroll before the buttons
ClassifyScrollFirst(l_alt, l_shift, m_mouse, mouse_movement, scroll_amount) ==
    IF scroll_amount # 0 THEN [kind |-> "Zoom", x |-> 0, y |-> scroll_amount]
    ELSE IF l_alt /\ m_mouse
        THEN [kind |-> "Pan", x |-> mouse_movement[1], y |-> mouse_movement[2]]
    ELSE IF l_shift /\ m_mouse
        THEN [kind |-> "Rotate", x |-> mouse_movement[1], y |-> mouse_movement[2]]
    ELSE IF m_mouse
        THEN [kind |-> "Orbit", x |-> mouse_movement[1], y |-> mouse_movement[2]]
    ELSE [kind |-> "None", x |-> 0, y |-> 0]

\* main.rs 203-213
Classify(l_alt, l_shift, m_mouse, mouse_movement, scroll_amount) ==
    IF l_alt /\ m_mouse THEN [kind |-> "Pan", x |-> mouse_movement[1], y |-> mouse_movement[2]]
    ELSE IF l_shift /\ m_mouse
        THEN [kind |-> "Rotate", x |-> mouse_movement[1], y |-> mouse_movement[2]]
    ELSE IF m_mouse
        THEN [kind |-> "Orbit", x |-> mouse_movement[1], y |-> mouse_movement[2]]
    ELSE IF scroll_amount # 0 THEN [kind |-> "Zoom", x |-> 0, y |-> scroll_amount]
    ELSE None

\* a variant of ApplyManipulation whose Zoom leaves delta_seconds out
ApplyManipulationZoomNoDt(cam, m, delta_seconds) ==
    IF m.kind = "Orbit"
    THEN [cam EXCEPT !.yaw = @ + m.x * delta_seconds,
                     !.pitch = f32_sub(@, m.y * delta_seconds * look_scale)]
    ELSE IF m.kind = "Zoom"
    THEN [cam EXCEPT !.distance = f32_sub(@, m.y * 1000 * zoom_scale)]
    ELSE cam

\* a variant of ApplyManipulation whose Orbit adds the pitch delta
ApplyManipulationOrbitPitchAdd(cam, m, delta_seconds) ==
    IF m.kind = "Orbit"
    THEN [cam EXCEPT !.yaw = @ + m.x * delta_seconds,
                     !.pitch = f32_sub(@, -(m.y * delta_seconds * look_scale))]
    ELSE IF m.kind = "Zoom"
    THEN [cam EXCEPT !.distance = f32_sub(@, m.y * delta_seconds * zoom_scale)]
    ELSE cam

\* a variant of ApplyManipulation whose Rotate turns the camera as Orbit does
ApplyManipulationRotateOrbits(cam, m, delta_seconds) ==
    IF m.kind \in {"Orbit", "Rotate"}
    THEN [cam EXCEPT !.yaw = @ + m.x * delta_seconds,
                     !.pitch = f32_sub(@, m.y * delta_seconds * look_scale)]
    ELSE IF m.kind = "Zoom"
    THEN [cam EXCEPT !.distance = f32_sub(@, m.y * delta_seconds * zoom_scale)]
    ELSE cam

\* main.rs 215-228: the OrbitCamera after the match on the manipulation
ApplyManipulation(cam, m, delta_seconds) ==
    IF m.kind = "Orbit"
    THEN [cam EXCEPT !.yaw = @ + m.x * delta_seconds,
                     !.pitch = f32_sub(@, m.y * delta_seconds * look_scale)]
    ELSE IF m.kind = "Zoom"
    THEN [cam EXCEPT !.distance = f32_sub(@, m.y * delta_seconds * zoom_scale)]
    ELSE cam

Camera == [distance |-> cam_distance, pitch |-> cam_pitch, yaw |-> cam_yaw]

Abs(n) == IF n < 0 THEN -n ELSE n

process_user_input ==
    /\ Turn("process_user_input")
    /\ \E l_alt \in BOOLEAN, l_shift \in BOOLEAN, m_mouse \in BOOLEAN,
          delta_seconds \in DeltaSeconds :
        LET mouse_movement == IF mouse_motion_events = <<>> THEN Vec2(0, 0)
                              ELSE Last(mouse_motion_events)
            scroll_amount == IF mouse_wheel_events = <<>> THEN 0
                             ELSE Last(mouse_wheel_events)
            m == Classify(l_alt, l_shift, m_mouse, mouse_movement, scroll_amount)
            cam == ApplyManipulation(Camera, m, delta_seconds)
        IN  /\ Abs(cam.yaw) <= MaxYawRad * 1000000
            /\ keys' = [l_alt |-> l_alt, l_shift |-> l_shift, m_mouse |-> m_mouse,
                        mouse_movement |-> mouse_movement, scroll_amount |-> scroll_amount]
            /\ dt' = delta_seconds
            /\ manipulation' = m
            /\ pre' = Camera
            /\ cam_distance' = cam.distance
            /\ cam_pitch' = cam.pitch
            /\ cam_yaw' = cam.yaw
    /\ mouse_motion_events' = <<>>
    /\ mouse_wheel_events' = <<>>
    /\ last_cam' = "process_user_input"
    /\ UNCHANGED <<cam_entity, light_entity, posevars, readvars, cursor_moved_events,
                   scenevars, pickvars>>

----------------------------------------------------------------------------
(* update_camera *)

\* a variant of ClampPitch without the lower bound
ClampPitchNoMax(p) == f32_min(p, F(PitchMax))

\* a variant of ClampPitch that clamps to the poles, 0 and 180 deg
ClampPitchToPoles(p) == f32_min(f32_max(p, F(0)), F(3141593))

\* main.rs 240-243
ClampPitch(p) == f32_min(f32_max(p, F(PitchMin)), F(PitchMax))
\* main.rs 244
ClampDistance(d) == f32_min(f32_max(d, F(DistMin)), F(DistMax))

(* The poses are kept as terms: the function applied and the pitch,        *)
(* distance and yaw it was applied to.                                     *)
Term(f, pitch, distance, yaw) == [f |-> f, pitch |-> pitch, distance |-> distance, yaw |-> yaw]
\* the value a component has before update_camera writes it
DefaultPose == Term("default", F(0), F(0), 0)
\* Quat::from_rotation_y(angle)
from_rotation_y(angle) == Term("from_rotation_y", F(0), F(0), angle)
\* Vec3::new(0, cos pitch, -sin pitch).normalize() * distance
CamPos(pitch, distance) == Term("cam_pos", pitch, distance, 0)
\* Mat4::face_toward(cam_pos, zero, up).to_scale_rotation_translation().1
LookRotation(cam_pos) == Term("face_toward", cam_pos.pitch, cam_pos.distance, 0)
\* light_rot.mul_vec3(cam_pos)
mul_vec3(rot, cam_pos) == Term("mul_vec3", cam_pos.pitch, cam_pos.distance, rot.yaw)

\* a variant of update_camera whose light block is not inside the camera block
update_camera_light_apart ==
    /\ Turn("update_camera")
    /\ LET pitch == ClampPitch(cam_pitch)
           distance == ClampDistance(cam_distance)
           cam_pos == CamPos(pitch, distance)
       IN  /\ cam_pitch' = pitch
           /\ cam_distance' = distance
           /\ pivot_rotation' = from_rotation_y(-cam_yaw)
           /\ IF cam_entity
              THEN /\ cam_translation' = cam_pos
                   /\ cam_rotation' = LookRotation(cam_pos)
              ELSE UNCHANGED <<cam_translation, cam_rotation>>
           /\ IF light_entity
              THEN /\ light_translation' = mul_vec3(from_rotation_y(-cam_yaw), cam_pos)
                   /\ light_transform' = [value |-> cam_transform, sync |-> FALSE]
              ELSE UNCHANGED <<light_translation, light_transform>>
    /\ last_cam' = "update_camera"
    /\ UNCHANGED <<cam_yaw, cam_entity, light_entity, readvars, inputvars,
                   cursor_moved_events, decidedvars, scenevars, pickvars>>

update_camera ==
    /\ Turn("update_camera")
    /\ LET pitch == ClampPitch(cam_pitch)
           distance == ClampDistance(cam_distance)
           cam_pos == CamPos(pitch, distance)
       IN  /\ cam_pitch' = pitch
           /\ cam_distance' = distance
           /\ pivot_rotation' = from_rotation_y(-cam_yaw)
           /\ IF cam_entity
              THEN /\ cam_translation' = cam_pos
                   /\ cam_rotation' = LookRotation(cam_pos)
                   /\ IF light_entity
                      THEN /\ light_translation' =
                                  mul_vec3(from_rotation_y(-cam_yaw), cam_pos)
                           /\ light_transform' = [value |-> cam_transform, sync |-> FALSE]
                      ELSE UNCHANGED <<light_translation, light_transform>>
              ELSE UNCHANGED <<cam_translation, cam_rotation, light_translation,
                               light_transform>>
    /\ last_cam' = "update_camera"
    /\ UNCHANGED <<cam_yaw, cam_entity, light_entity, readvars, inputvars,
                   cursor_moved_events, decidedvars, scenevars, pickvars>>

(* The transform systems of the engine (add_default_plugins, main.rs 26) run *)
(* in the stage after the one of the three systems of this program: they    *)
(* compute the Transform of the camera from its Translation and Rotation    *)
(* and from its parent, the rotation centre (main.rs 114-119).  The Mat4    *)
(* family of the model does not tell the poses of the orbit camera apart:   *)
(* cam_transform keeps its value and cam_transform_of names the pose.       *)
transform_propagate ==
    /\ Turn("transform_propagate")
    /\ cam_transform_of' =
          IF cam_entity
          THEN [translation |-> cam_translation, rotation |-> cam_rotation,
                parent |-> pivot_rotation]
          ELSE cam_transform_of
    /\ UNCHANGED <<camvars, posevars, cam_transform, cam_projection, inputvars,
                   cursor_moved_events, decidedvars, scenevars, pickvars, last_cam>>

----------------------------------------------------------------------------
(* Geometry *)

\* main.rs 393-395, on coordinates in quarters
double_tri_area(a, b, c) ==
    Abs(a[1] * (b[2] - c[2]) + b[1] * (c[2] - a[2]) + c[1] * (a[2] - b[2]))

\* 1 / epsilon of main.rs 403
EpsilonInv == 1000000000

\* main.rs 397-406.  The areas are in sixteenths (quarters squared), so
\* |area - area_tris| < epsilon reads |area - area_tris| * (1/epsilon) < 16,
\* which for a whole number of sixteenths is the comparison below.
point_in_tri(p, a, b, c) ==
    LET area == double_tri_area(a, b, c)
        pab == double_tri_area(p, a, b)
        pac == double_tri_area(p, a, c)
        pbc == double_tri_area(p, b, c)
        area_tris == pab + pac + pbc
    IN  Abs(area - area_tris) <= (NdcOne * NdcOne - 1) \div EpsilonInv

(* Mat4 is kept to the matrices that scale x, y, z alike and translate in  *)
(* x and y, a family closed under the products the program takes; the     *)
(* zero matrix is [s = 0, tx = 0, ty = 0].                                 *)
Mat(s, tx, ty) == [s |-> s, tx |-> tx, ty |-> ty]
MatZero == Mat(0, 0, 0)
MatIdentity == Mat(1, 0, 0)
\* a * b
MatMul(a, b) == Mat(a.s * b.s, a.s * b.tx + a.tx, a.s * b.ty + a.ty)
\* Mat4::inverse of a translation
MatInverse(m) == Mat(1, -m.tx, -m.ty)
\* Mat4::perspective_rh(fov, aspect_ratio, near, far): its scale of x and y
perspective_rh(proj) == Mat(proj, 0, 0)
\* Mat4::transform_point3: the point as a Vec4 with w = 1, no division by w
transform_point3(m, v) == <<m.s * v[1] + m.tx, m.s * v[2] + m.ty, m.s * v[3]>>

----------------------------------------------------------------------------
(* cursor_pick *)

\* a variant of NdcCursor that divides both coordinates by the width
NdcCursorByWidth(cursor_position, screen_size) ==
    Vec2((cursor_position[1] * 2 * NdcOne) \div screen_size[1] - NdcOne,
         (cursor_position[2] * 2 * NdcOne) \div screen_size[1] - NdcOne)

\* main.rs 311, in quarters: (cursor_position / screen_size) * 2.0 - 1.0
NdcCursor(cursor_position, screen_size) ==
    Vec2((cursor_position[1] * 2 * NdcOne) \div screen_size[1] - NdcOne,
         (cursor_position[2] * 2 * NdcOne) \div screen_size[2] - NdcOne)

\* main.rs 320-326: what the Transform that becomes the view matrix was computed from
NoPose == [translation |-> DefaultPose, rotation |-> DefaultPose, parent |-> DefaultPose]
ViewOf == IF cam_entity THEN cam_transform_of ELSE NoPose

\* main.rs 320-332
ViewMatrix == IF cam_entity THEN MatInverse(cam_transform) ELSE MatZero
ProjectionMatrix == IF cam_entity THEN perspective_rh(cam_projection) ELSE MatZero

\* main.rs 345-354: the positions the attribute loop leaves in `vertices`
RECURSIVE AttributeLoop(_, _, _)
AttributeLoop(attributes, i, vertices) ==
    IF i > Len(attributes) THEN vertices
    ELSE IF attributes[i].name # "POSITION" THEN vertices
    ELSE AttributeLoop(attributes, i + 1,
                       IF attributes[i].kind = "Float3" THEN attributes[i].values
                       ELSE vertices)

Vertices(mesh) == AttributeLoop(mesh.attributes, 1, <<>>)

\* indices.chunks(3)
NumChunks(indices) == (Len(indices) + 2) \div 3
Chunk(indices, k) ==
    SubSeq(indices, 3 * (k - 1) + 1, IF 3 * k <= Len(indices) THEN 3 * k ELSE Len(indices))

\* main.rs 370-373: vertices[index[i] as usize] panics when out of bounds
ChunkPanics(vertices, index) ==
    Len(index) = 3 /\ \E i \in 1..3 : index[i] >= Len(vertices)

\* main.rs 367-375: the triangle handed to point_in_tri
Triangle(combined_transform, vertices, index) ==
    IF Len(index) = 3
    THEN [i \in 1..3 |-> transform_point3(combined_transform, vertices[index[i] + 1])]
    ELSE [i \in 1..3 |-> <<0, 0, 0>>]

\* main.rs 376-381
ChunkHit(ndc, combined_transform, vertices, index) ==
    LET triangle == Triangle(combined_transform, vertices, index)
    IN  point_in_tri(ndc, Vec2(triangle[1][1], triangle[1][2]),
                     Vec2(triangle[2][1], triangle[2][2]),
                     Vec2(triangle[3][1], triangle[3][2]))

Run(te, hi, pa) == [tested |-> te, hits |-> hi, panicked |-> pa]

\* main.rs 360-387: the loop over the chunks of mesh number m, from chunk k
RECURSIVE ChunkLoop(_, _, _, _, _, _)
ChunkLoop(ndc, combined_transform, vertices, m, k, acc) ==
    LET indices == meshes[m].indices.v
        index == Chunk(indices, k)
    IN  IF k > NumChunks(indices) THEN acc
        ELSE IF ChunkPanics(vertices, index) THEN Run(acc.tested, acc.hits, TRUE)
        ELSE IF ChunkHit(ndc, combined_transform, vertices, index)
        THEN Run(Append(acc.tested, <<m, k>>), Append(acc.hits, <<m, k>>), FALSE)
        ELSE ChunkLoop(ndc, combined_transform, vertices, m, k + 1,
                       Run(Append(acc.tested, <<m, k>>), acc.hits, FALSE))

\* main.rs 335-390: the loop over the meshes, from mesh number m
RECURSIVE MeshLoop(_, _, _)
MeshLoop(ndc, m, acc) ==
    IF m > Len(meshes) \/ acc.panicked THEN acc
    ELSE IF meshes[m].primitive_topology # "TriangleList" THEN acc
    ELSE IF meshes[m].indices.some
    THEN MeshLoop(ndc, m + 1,
                  ChunkLoop(ndc,
                            MatMul(MatMul(ProjectionMatrix, ViewMatrix), meshes[m].transform),
                            Vertices(meshes[m]), m, 1, acc))
    ELSE MeshLoop(ndc, m + 1, acc)

\* CursorMoved.position, pixels: the centre of the window, two points next to
\* it and the far corner
CursorPositions(win) ==
    LET cx == win[1] \div 2
        cy == win[2] \div 2
    IN  {Vec2(cx, cy), Vec2(cx + 1, cy + 1), Vec2(cx + 1, cy), Vec2(win[1], win[2])}

\* Between two frames the window plugin appends the CursorMoved events.
deliver_cursor_events ==
    /\ Turn("deliver_cursor_events")
    /\ \E cs \in SeqsUpTo(CursorPositions(window), MaxEvents) :
          cursor_moved_events' = cursor_moved_events \o cs
    /\ UNCHANGED <<camvars, posevars, readvars, inputvars, decidedvars, scenevars,
                   pickvars, last_cam>>

\* a variant of cursor_pick that goes on from the position (0, 0) of line 302
\* when there is no new event
cursor_pick_no_return ==
    /\ Turn("cursor_pick")
    /\ cursor_moved_events' = <<>>
    /\ LET cursor_position == IF cursor_moved_events = <<>> THEN Vec2(0, 0)
                              ELSE Last(cursor_moved_events)
           ndc == NdcCursor(cursor_position, window)
           run == MeshLoop(ndc, 1, Run(<<>>, <<>>, FALSE))
       IN  /\ picked' = "evaluated"
           /\ ndc_cursor' = ndc
           /\ view_of' = ViewOf
           /\ tested' = run.tested
           /\ hits' = run.hits
           /\ panicked' = run.panicked
    /\ UNCHANGED <<camvars, posevars, readvars, inputvars, decidedvars, scenevars, last_cam>>

cursor_pick ==
    /\ Turn("cursor_pick")
    /\ cursor_moved_events' = <<>>
    /\ IF cursor_moved_events = <<>>
       THEN /\ picked' = "returned"
            /\ tested' = <<>>
            /\ hits' = <<>>
            /\ UNCHANGED <<ndc_cursor, panicked, view_of>>
       ELSE LET ndc == NdcCursor(Last(cursor_moved_events), window)
                run == MeshLoop(ndc, 1, Run(<<>>, <<>>, FALSE))
            IN  /\ picked' = "evaluated"
                /\ ndc_cursor' = ndc
                /\ view_of' = ViewOf
                /\ tested' = run.tested
                /\ hits' = run.hits
                /\ panicked' = run.panicked
    /\ UNCHANGED <<camvars, posevars, readvars, inputvars, decidedvars, scenevars, last_cam>>

----------------------------------------------------------------------------
(* Scenes *)

Mesh(topology, attributes, indices, transform) ==
    [primitive_topology |-> topology, attributes |-> attributes, indices |-> indices,
     transform |-> transform]
Some(v) == [some |-> TRUE, v |-> v]
NoIndices == [some |-> FALSE, v |-> <<>>]

\* vertices 0-2: a triangle over the centre of the screen; 3-5: a small one in a corner
Positions == << <<-1, -1, 0>>, <<4, -1, 0>>, <<-1, 4, 0>>,
                <<-4, -4, 0>>, <<-3, -4, 0>>, <<-4, -3, 0>> >>
PositionAttribute == [name |-> "POSITION", kind |-> "Float3", values |-> Positions]
NormalAttribute == [name |-> "NORMAL", kind |-> "Float3",
                    values |-> [i \in 1..6 |-> <<0, 0, 1>>]]

MeshLibrary ==
    { \* the centre triangle twice
      Mesh("TriangleList", <<PositionAttribute, NormalAttribute>>,
           Some(<<0, 1, 2, 0, 2, 1>>), MatIdentity),
      \* the corner triangle, moved over the centre by the mesh transform
      Mesh("TriangleList", <<PositionAttribute>>, Some(<<3, 4, 5>>), Mat(1, 4, 4)),
      \* the corner triangle, then the centre triangle
      Mesh("TriangleList", <<PositionAttribute>>, Some(<<3, 4, 5, 0, 1, 2>>), MatIdentity),
      \* not a triangle list
      Mesh("LineList", <<PositionAttribute>>, Some(<<0, 1>>), MatIdentity),
      \* no index list
      Mesh("TriangleList", <<PositionAttribute>>, NoIndices, MatIdentity),
      \* no position attribute
      Mesh("TriangleList", <<NormalAttribute>>, Some(<<0, 1, 2>>), MatIdentity),
      \* a trailing chunk of one index
      Mesh("TriangleList", <<PositionAttribute>>, Some(<<3, 4, 5, 0>>), MatIdentity),
      \* no position attribute and a single chunk of two indices
      Mesh("TriangleList", <<NormalAttribute>>, Some(<<0, 1>>), MatIdentity) }

Scenes == SeqsUpTo(MeshLibrary, MaxMeshes)
WindowSizes == {Vec2(8, 8), Vec2(4, 4)}

----------------------------------------------------------------------------
(* Specifications *)

\* setup (main.rs 60-156) and the Default of the resources
InitComponents ==
    /\ cam_yaw = DefaultYaw
    /\ pivot_rotation = DefaultPose
    /\ cam_translation = DefaultPose
    /\ cam_rotation = DefaultPose
    /\ light_translation = DefaultPose
    /\ light_transform = [value |-> MatIdentity, sync |-> TRUE]
    /\ mouse_motion_events = <<>>
    /\ mouse_wheel_events = <<>>
    /\ cursor_moved_events = <<>>
    /\ keys = NoKeys
    /\ dt = 0
    /\ manipulation = None
    /\ pre = Camera
    /\ ndc_cursor = Vec2(0, 0)
    /\ tested = <<>>
    /\ hits = <<>>
    /\ panicked = FALSE
    /\ picked = "never"
    /\ view_of = NoPose
    /\ cam_transform_of = NoPose
    /\ tri_args = <<Vec2(0, 0), Vec2(0, 0), Vec2(0, 0), Vec2(0, 0)>>
    /\ tri_result = TRUE
    /\ ndc_args = <<Vec2(0, 0), Vec2(1, 1)>>
    /\ pc = 1
    /\ last_cam = "setup"

InitDefaultCamera ==
    /\ cam_distance = F(DefaultDistance)
    /\ cam_pitch = F(DefaultPitch)

\* setup binds a camera and a light to the rotation centre (main.rs 82-86)
InitBound ==
    /\ cam_entity = TRUE
    /\ light_entity = TRUE

InitDefaultScene ==
    /\ meshes = <<>>
    /\ window = Vec2(8, 8)
    /\ cam_transform = MatIdentity
    /\ cam_projection = 1

\* The camera of the program, driven by the input systems.
InitCam ==
    /\ InitDefaultCamera
    /\ InitComponents
    /\ InitBound
    /\ InitDefaultScene
    /\ schedule = <<"next_frame", "deliver_input_events", "process_user_input",
                    "update_camera">>

NextCam == next_frame \/ deliver_input_events \/ process_user_input \/ update_camera

SpecCam == InitCam /\ [][NextCam]_vars

\* The same, from any pitch and distance an OrbitCamera can be built with.
StartPitches == {NaN, F(0), F(DefaultPitch), F(3141593), F(-1000000)}
StartDistances == {NaN, F(0), F(31000000)}

InitCamAny ==
    /\ cam_distance \in StartDistances
    /\ cam_pitch \in StartPitches
    /\ InitComponents
    /\ InitBound
    /\ InitDefaultScene
    /\ schedule = <<"next_frame", "deliver_input_events", "process_user_input",
                    "update_camera">>

SpecCamAny == InitCamAny /\ [][NextCam]_vars

\* The same, for an OrbitCamera with or without a camera, with or without a light.
InitCamOpt ==
    /\ InitDefaultCamera
    /\ InitComponents
    /\ cam_entity \in BOOLEAN
    /\ light_entity \in BOOLEAN
    /\ InitDefaultScene
    /\ schedule = <<"next_frame", "deliver_input_events", "process_user_input",
                    "update_camera">>

SpecCamOpt == InitCamOpt /\ [][NextCam]_vars

\* The pick, over the scenes, windows and camera transforms of the bounds.
InitPick ==
    /\ InitDefaultCamera
    /\ InitComponents
    /\ InitBound
    /\ meshes \in Scenes
    /\ window \in WindowSizes
    /\ cam_transform \in {MatIdentity, Mat(1, 1, 0)}
    /\ cam_projection \in {1, 2}
    /\ schedule = <<"deliver_cursor_events", "cursor_pick">>

NextPick == deliver_cursor_events \/ cursor_pick

SpecPick == InitPick /\ [][NextPick]_vars

\* The pick for an OrbitCamera without a camera entity.
InitPickNoCamera ==
    /\ InitDefaultCamera
    /\ InitComponents
    /\ cam_entity = FALSE
    /\ light_entity = FALSE
    /\ meshes \in Scenes
    /\ window \in WindowSizes
    /\ cam_transform = MatIdentity
    /\ cam_projection = 1
    /\ schedule = <<"deliver_cursor_events", "cursor_pick">>

SpecPickNoCamera == InitPickNoCamera /\ [][NextPick]_vars

\* The whole frame: the host delivers the events, the three systems run in
\* the order main adds them, then the stage of the transform systems.
Frame == <<"next_frame", "deliver_input_events", "deliver_cursor_events",
           "process_user_input", "update_camera", "cursor_pick", "transform_propagate">>

RECURSIVE Frames(_)
Frames(n) == IF n = 0 THEN <<>> ELSE Frame \o Frames(n - 1)

\* the App runs MaxFrames frames and exits: no system has the turn "exit"
\* a scene of one mesh, two triangles over the centre of the screen
SceneInView ==
    <<Mesh("TriangleList", <<PositionAttribute, NormalAttribute>>,
           Some(<<0, 1, 2, 0, 2, 1>>), MatIdentity)>>

InitTick ==
    /\ InitDefaultCamera
    /\ InitComponents
    /\ InitBound
    /\ meshes = SceneInView
    /\ window = Vec2(8, 8)
    /\ cam_transform = MatIdentity
    /\ cam_projection = 1
    /\ schedule = Frames(MaxFrames) \o <<"exit">>

NextTick ==
    \/ next_frame \/ deliver_input_events \/ deliver_cursor_events
    \/ process_user_input \/ update_camera \/ cursor_pick \/ transform_propagate

SpecTick == InitTick /\ [][NextTick]_vars

----------------------------------------------------------------------------
(* The camera: C1, C2, C10 *)

InRange(x, lo, hi) == ~x.nan /\ lo <= x.v /\ x.v <= hi

\* update_camera has run and process_user_input has not run since
AfterTick == last_cam = "update_camera"

\* C1: after every tick, from any starting pitch and distance and after any
\* intents, pitch is within [1 deg, 179 deg] and distance within [5, 30], and
\* the camera offset was derived from a pitch within these bounds (never
\* from 0 or 180 deg).
C1_ClampedAfterEveryTick ==
    AfterTick =>
        /\ InRange(cam_pitch, PitchMin, PitchMax)
        /\ InRange(cam_distance, DistMin, DistMax)
        /\ cam_entity =>
              /\ cam_translation = CamPos(cam_pitch, cam_distance)
              /\ ~cam_translation.pitch.nan
              /\ cam_translation.pitch.v \notin {0, 3141593}

\* a tick without intent that started at 180 deg and a NaN distance
C1_Witness ==
    /\ AfterTick
    /\ manipulation.kind = "None"
    /\ pre.pitch = F(3141593)
    /\ pre.distance.nan

\* The intent the decision order of the specification selects.
ExpectedKind ==
    CASE keys.l_alt /\ keys.m_mouse -> "Pan"
      [] ~keys.l_alt /\ keys.l_shift /\ keys.m_mouse -> "Rotate"
      [] ~keys.l_alt /\ ~keys.l_shift /\ keys.m_mouse -> "Orbit"
      [] ~keys.m_mouse /\ keys.scroll_amount # 0 -> "Zoom"
      [] ~keys.m_mouse /\ keys.scroll_amount = 0 -> "None"

\* C2: for every combination of Alt, Shift, middle button and scroll delta
\* process_user_input selects the one intent of the decision order (Pan,
\* Rotate, Orbit, Zoom, none; first match), and applies no other: only
\* Orbit changes yaw or pitch, only Zoom changes distance.
C2_OneIntentByFirstMatch ==
    last_cam = "process_user_input" =>
        /\ manipulation.kind = ExpectedKind
        /\ manipulation.kind # "Orbit" => cam_yaw = pre.yaw /\ cam_pitch = pre.pitch
        /\ manipulation.kind # "Zoom" => cam_distance = pre.distance

\* Alt, Shift and the middle button held while the wheel scrolls: Pan
C2_Witness ==
    /\ last_cam = "process_user_input"
    /\ keys.l_alt /\ keys.l_shift /\ keys.m_mouse
    /\ keys.scroll_amount # 0
    /\ manipulation.kind = "Pan"

ClampTo(n, lo, hi) == IF n < lo THEN lo ELSE IF n > hi THEN hi ELSE n

\* C10: a tick with a Zoom intent ends with distance =
\* clamp(distance - scroll.y * dt * 50, 5, 30) and with yaw and pitch as
\* they were; from distance 20, pitch 30 deg, yaw 0, a Zoom with scroll.y = 1
\* and dt = 1 ends with distance 5.
C10_ZoomTick ==
    (AfterTick /\ manipulation.kind = "Zoom") =>
        /\ cam_distance = F(ClampTo(pre.distance.v - manipulation.y * dt * 50,
                                    5000000, 30000000))
        /\ cam_yaw = pre.yaw
        /\ cam_pitch = pre.pitch
        /\ (/\ pre = [distance |-> F(20000000), pitch |-> F(523599), yaw |-> 0]
            /\ manipulation.y = 1000
            /\ dt = 1000) => cam_distance = F(5000000)

C10_Witness ==
    /\ AfterTick
    /\ manipulation.kind = "Zoom"
    /\ pre = [distance |-> F(20000000), pitch |-> F(523599), yaw |-> 0]
    /\ manipulation.y = 1000
    /\ dt = 1000
    /\ cam_distance = F(5000000)

\* C11: a tick with an Orbit intent of delta (dx, dy) ends with yaw =
\* yaw + dx * dt (not clamped, not wrapped), pitch = clamp(pitch - dy * dt,
\* 1 deg, 179 deg) and distance as it was; with dy = 0 and pitch in range,
\* pitch is as it was.
C11_OrbitTick ==
    (AfterTick /\ manipulation.kind = "Orbit") =>
        /\ cam_yaw = pre.yaw + manipulation.x * dt
        /\ cam_pitch = F(ClampTo(pre.pitch.v - manipulation.y * dt, 17453, 3124139))
        /\ cam_distance = pre.distance
        /\ (manipulation.y = 0 /\ InRange(pre.pitch, 17453, 3124139)) =>
               cam_pitch = pre.pitch

\* an Orbit of (-1, 1) over one second from 30 deg: yaw one radian less, pitch
\* held at 1 deg
C11_Witness ==
    /\ AfterTick
    /\ manipulation = [kind |-> "Orbit", x |-> -1000, y |-> 1000]
    /\ dt = 1000
    /\ pre.pitch = F(523599)
    /\ cam_yaw = pre.yaw - 1000000
    /\ cam_pitch = F(17453)

\* C12: from pitch and distance in range, a tick whose intent is Pan, Rotate,
\* none, or Orbit with a zero delta ends with yaw, pitch and distance as they
\* were, however many such ticks came before.
C12_NoChange ==
    (/\ AfterTick
     /\ InRange(pre.pitch, 17453, 3124139)
     /\ InRange(pre.distance, 5000000, 30000000)
     /\ \/ manipulation.kind \in {"Pan", "Rotate", "None"}
        \/ manipulation = [kind |-> "Orbit", x |-> 0, y |-> 0])
    => (cam_yaw = pre.yaw /\ cam_pitch = pre.pitch /\ cam_distance = pre.distance)

\* a Rotate with a mouse delta over one second, after the camera was moved
C12_Witness ==
    /\ AfterTick
    /\ manipulation.kind = "Rotate"
    /\ manipulation.x # 0
    /\ manipulation.y # 0
    /\ dt = 1000
    /\ pre.pitch # F(523599)
    /\ cam_yaw = pre.yaw /\ cam_pitch = pre.pitch /\ cam_distance = pre.distance

\* an Orbit tick that drove pitch toward 0 deg, toward 180 deg
DrivenDown == AfterTick /\ manipulation.kind = "Orbit" /\ manipulation.y * dt > 0
DrivenUp == AfterTick /\ manipulation.kind = "Orbit" /\ manipulation.y * dt < 0

\* C13 as stated: under Orbit intents that drive pitch toward 0 deg or 180 deg
\* the pitch at the end of each tick keeps approaching the pole without ever
\* reaching the value it is driven toward: each such tick ends strictly
\* nearer to the pole than it began, and never at it.
C13_ApproachesNeverReaches ==
    /\ DrivenDown => (0 < cam_pitch.v /\ cam_pitch.v < pre.pitch.v)
    /\ DrivenUp => (pre.pitch.v < cam_pitch.v /\ cam_pitch.v < 3141593)

Max2(x, y) == IF x >= y THEN x ELSE y
Min2(x, y) == IF x <= y THEN x ELSE y

\* C13 as amended: under Orbit intents that drive pitch toward 0 deg or
\* 180 deg the pitch at the end of each tick is the driven pitch held at
\* 1 deg or 179 deg: it moves no further from the pole, it reaches 1 deg
\* (179 deg) exactly and stays there, and it is never 0 deg or 180 deg.
C13_HeldAtClampLimit ==
    /\ DrivenDown =>
          /\ cam_pitch = F(Max2(17453, pre.pitch.v - manipulation.y * dt))
          /\ cam_pitch.v <= pre.pitch.v
          /\ cam_pitch.v > 0
    /\ DrivenUp =>
          /\ cam_pitch = F(Min2(3124139, pre.pitch.v - manipulation.y * dt))
          /\ cam_pitch.v >= pre.pitch.v
          /\ cam_pitch.v < 3141593

\* a tick that began at 179 deg, was driven up, and ended at 179 deg
C13_Witness ==
    /\ DrivenUp
    /\ pre.pitch = F(3124139)
    /\ cam_pitch = F(3124139)

\* a step of update_camera
UpdateCameraStep == pc \in 1..Len(schedule) /\ schedule[pc] = "update_camera" /\ pc' # pc

\* C14: update_camera raises no error when no camera or no light is bound and
\* skips only what depends on the missing entity.  Without a camera the
\* camera pose and the light pose stay as they were, while pitch and distance
\* are clamped and the pivot orientation is set from yaw; with a camera and
\* without a light the camera position and orientation are written and no
\* light is touched.
C14_AbsentEntitiesSkipped ==
    [][UpdateCameraStep =>
          /\ ~panicked'
          /\ InRange(cam_pitch', 17453, 3124139)
          /\ InRange(cam_distance', 5000000, 30000000)
          /\ pivot_rotation' = Term("from_rotation_y", F(0), F(0), -cam_yaw)
          /\ ~cam_entity =>
                UNCHANGED <<cam_translation, cam_rotation, light_translation, light_transform>>
          /\ (cam_entity /\ ~light_entity) =>
                /\ cam_translation' = Term("cam_pos", cam_pitch', cam_distance', 0)
                /\ cam_rotation' = Term("face_toward", cam_pitch', cam_distance', 0)
                /\ UNCHANGED <<light_translation, light_transform>>]_vars

\* a tick that orbited a pivot with a light and without a camera: the pivot
\* turned, the poses are those of setup
C14_Witness ==
    /\ AfterTick
    /\ ~cam_entity /\ light_entity
    /\ manipulation.kind = "Orbit"
    /\ cam_yaw # 0
    /\ cam_pitch # pre.pitch
    /\ pivot_rotation = Term("from_rotation_y", F(0), F(0), -cam_yaw)
    /\ cam_translation = DefaultPose
    /\ light_translation = DefaultPose
    /\ light_transform.sync

----------------------------------------------------------------------------
(* The event readers: C17, C18 *)

\* a step of process_user_input
ProcessUserInputStep ==
    pc \in 1..Len(schedule) /\ schedule[pc] = "process_user_input" /\ pc' # pc

\* the delta of the newest of the unread events, zero when there is none
NewestMotion ==
    IF mouse_motion_events = <<>> THEN Vec2(0, 0)
    ELSE mouse_motion_events[Len(mouse_motion_events)]
NewestScroll ==
    IF mouse_wheel_events = <<>> THEN 0 ELSE mouse_wheel_events[Len(mouse_wheel_events)]

C18_ScrollDroppedWhileHeld ==
    [][/\ ProcessUserInputStep =>
            /\ keys'.m_mouse => (manipulation'.kind # "Zoom" /\ cam_distance' = cam_distance)
            /\ mouse_wheel_events' = <<>>
            /\ mouse_wheel_events = <<>> => manipulation'.kind # "Zoom"
       /\ (UpdateCameraStep /\ keys.m_mouse) => cam_distance' = cam_distance]_vars

\* a tick in which the wheel scrolled by 1 with the middle button held
C18_Witness ==
    /\ AfterTick
    /\ keys.m_mouse
    /\ keys.scroll_amount = 1000
    /\ dt = 1000
    /\ manipulation.kind = "Orbit"
    /\ cam_distance = pre.distance
    /\ mouse_wheel_events = <<>>

----------------------------------------------------------------------------
(* The whole frame: C15 *)

\* cursor_pick has just run
AfterPick == pc \in 2..Len(schedule) /\ schedule[pc - 1] = "cursor_pick"

\* the pose update_camera derives from the pitch, distance and yaw held now
CurrentPose ==
    [translation |-> Term("cam_pos", cam_pitch, cam_distance, 0),
     rotation |-> Term("face_toward", cam_pitch, cam_distance, 0),
     parent |-> Term("from_rotation_y", F(0), F(0), -cam_yaw)]

\* C15: in a tick the systems run in the order input classification, camera
\* update, pick, and the view transform cursor_pick uses is the one of the
\* pitch, yaw and distance the intent of the same tick produced, not of the
\* pose of an earlier tick.  Stated of the ticks after the first whose intent
\* changed the camera.
C15_PickReadsCurrentPose ==
    (/\ AfterPick
     /\ pc > Len(Frame)
     /\ picked = "evaluated"
     /\ manipulation.kind \in {"Orbit", "Zoom"}
     /\ Camera # pre)
    => (/\ last_cam = "update_camera"
        /\ view_of = CurrentPose)

\* a step of cursor_pick
CursorPickStep == pc \in 1..Len(schedule) /\ schedule[pc] = "cursor_pick" /\ pc' # pc

\* C19: cursor_pick evaluates the meshes only in a tick in which a new
\* CursorMoved event has arrived since its last run; without one it returns
\* before any triangle is tested and reports no hit, whatever the tick did to
\* the camera.
C19_PickOnlyOnNewCursorEvent ==
    [][CursorPickStep =>
          IF cursor_moved_events = <<>>
          THEN /\ picked' = "returned"
               /\ tested' = <<>>
               /\ hits' = <<>>
               /\ UNCHANGED <<ndc_cursor, view_of>>
          ELSE picked' = "evaluated"]_vars

\* the second frame: the cursor rests over the centre triangle, where the
\* first frame found it, no CursorMoved event arrived, an Orbit moved the
\* camera: cursor_pick returned
C19_Witness ==
    /\ AfterPick
    /\ pc > Len(Frame)
    /\ ndc_cursor = Vec2(0, 0)
    /\ manipulation.kind = "Orbit"
    /\ Camera # pre
    /\ picked = "returned"
    /\ tested = <<>>
    /\ hits = <<>>

----------------------------------------------------------------------------
(* The conversion to NDC on its own: C16 *)

\* Screens of 1..MaxScreen pixels a side.  The cursor position is an f32 and
\* the centre of a screen of odd size lies between two pixels: positions and
\* sizes are both given in half pixels here, which leaves their quotient as
\* it is.
HalfPixels(n) == 2 * n
ScreenSizes == {Vec2(HalfPixels(w), HalfPixels(h)) : w, h \in 1..MaxScreen}
InsideWindow(screen_size) == (0..screen_size[1]) \X (0..screen_size[2])

\* one conversion, of any position inside any of the screens
call_ndc_cursor ==
    /\ pc = 1
    /\ pc' = 2
    /\ \E screen_size \in ScreenSizes :
          \E cursor_position \in InsideWindow(screen_size) :
              /\ ndc_args' = <<cursor_position, screen_size>>
              /\ ndc_cursor' = NdcCursor(cursor_position, screen_size)
    /\ UNCHANGED <<camvars, posevars, readvars, inputvars, cursor_moved_events,
                   decidedvars, scenevars, tested, hits, panicked, picked, view_of,
                   tri_args, tri_result, schedule, last_cam>>

InitNdc ==
    /\ InitDefaultCamera
    /\ InitComponents
    /\ InitBound
    /\ InitDefaultScene
    /\ schedule = <<>>

NextNdc == call_ndc_cursor

SpecNdc == InitNdc /\ [][NextNdc]_vars

\* C16: the conversion maps the exact centre of a screen of any size to NDC
\* (0, 0), and every cursor position inside the window to a point with both
\* coordinates in [-1, 1].
C16_CentreAndRange ==
    pc = 2 =>
        /\ (/\ 2 * ndc_args[1][1] = ndc_args[2][1]
            /\ 2 * ndc_args[1][2] = ndc_args[2][2]) => ndc_cursor = Vec2(0, 0)
        /\ -4 <= ndc_cursor[1] /\ ndc_cursor[1] <= 4
        /\ -4 <= ndc_cursor[2] /\ ndc_cursor[2] <= 4

\* the centre (1.5, 2.5) of a screen of 3 by 5 pixels
C16_Witness ==
    /\ pc = 2
    /\ ndc_args = <<Vec2(3, 5), Vec2(6, 10)>>
    /\ ndc_cursor = Vec2(0, 0)

----------------------------------------------------------------------------
(* point_in_tri on its own: C9 *)

\* the whole number n of NDC units, in quarters
Whole(n) == NdcOne * n
Grid == {Vec2(Whole(x), Whole(y)) : x, y \in 0..GridMax}

\* one call, on any point and triangle of the grid
call_point_in_tri ==
    /\ pc = 1
    /\ pc' = 2
    /\ \E p \in Grid, a \in Grid, b \in Grid, c \in Grid :
          /\ tri_args' = <<p, a, b, c>>
          /\ tri_result' = point_in_tri(p, a, b, c)
    /\ UNCHANGED <<ndc_args, camvars, posevars, readvars, inputvars, cursor_moved_events,
                   decidedvars, scenevars, pickvars, schedule, last_cam>>

InitTri ==
    /\ InitDefaultCamera
    /\ InitComponents
    /\ InitBound
    /\ InitDefaultScene
    /\ schedule = <<>>

NextTri == call_point_in_tri

SpecTri == InitTri /\ [][NextTri]_vars

\* twice the signed area of o, a, b
Cross(o, a, b) == (a[1] - o[1]) * (b[2] - o[2]) - (a[2] - o[2]) * (b[1] - o[1])
Min3(x, y, z) == IF x <= y /\ x <= z THEN x ELSE IF y <= z THEN y ELSE z
Max3(x, y, z) == IF x >= y /\ x >= z THEN x ELSE IF y >= z THEN y ELSE z

\* p lies in the triangle a, b, c or on its boundary: on no side of the three
\* edges strictly outside; for a triangle without area, on the segment (or
\* point) its corners span.
InTriangle(p, a, b, c) ==
    IF Cross(a, b, c) # 0
    THEN LET d1 == Cross(a, b, p)
             d2 == Cross(b, c, p)
             d3 == Cross(c, a, p)
         IN  ~((d1 < 0 \/ d2 < 0 \/ d3 < 0) /\ (d1 > 0 \/ d2 > 0 \/ d3 > 0))
    ELSE /\ Cross(a, b, p) = 0 /\ Cross(a, c, p) = 0 /\ Cross(b, c, p) = 0
         /\ Min3(a[1], b[1], c[1]) <= p[1] /\ p[1] <= Max3(a[1], b[1], c[1])
         /\ Min3(a[2], b[2], c[2]) <= p[2] /\ p[2] <= Max3(a[2], b[2], c[2])

\* C9: for every point p and triangle a, b, c of the grid, point_in_tri is
\* true exactly when p lies in the triangle or on its boundary; for the
\* triangle (0,0), (4,0), (0,4) it is true of (1,1) and (2,0), false of (5,5).
C9_PointInTriExact ==
    /\ tri_result = InTriangle(tri_args[1], tri_args[2], tri_args[3], tri_args[4])
    /\ (/\ tri_args[2] = Vec2(Whole(0), Whole(0))
        /\ tri_args[3] = Vec2(Whole(4), Whole(0))
        /\ tri_args[4] = Vec2(Whole(0), Whole(4))) =>
            /\ tri_args[1] = Vec2(Whole(1), Whole(1)) => tri_result
            /\ tri_args[1] = Vec2(Whole(2), Whole(0)) => tri_result
            /\ tri_args[1] = Vec2(Whole(5), Whole(5)) => ~tri_result

\* what does hold: the same, of the triangles that have an area
C9_ExactWhenNotDegenerate ==
    Cross(tri_args[2], tri_args[3], tri_args[4]) # 0 =>
        tri_result = InTriangle(tri_args[1], tri_args[2], tri_args[3], tri_args[4])

----------------------------------------------------------------------------
(* The pick: C3 - C8 *)

Evaluated == picked = "evaluated"

HasPositions(mesh) ==
    \E i \in DOMAIN mesh.attributes :
        mesh.attributes[i].name = "POSITION" /\ mesh.attributes[i].kind = "Float3"
PositionsOf(mesh) ==
    mesh.attributes[CHOOSE i \in DOMAIN mesh.attributes :
                        mesh.attributes[i].name = "POSITION"].values
IsTriangleList(mesh) == mesh.primitive_topology = "TriangleList"

\* The triangles of mesh number m as the specification lists them: the complete
\* index triples, or without an index list the consecutive position triples.
SpecTriangles(m) ==
    LET mesh == meshes[m]
    IN  IF ~IsTriangleList(mesh) \/ ~HasPositions(mesh) THEN <<>>
        ELSE IF mesh.indices.some
        THEN [k \in 1..(Len(mesh.indices.v) \div 3) |->
                  SubSeq(mesh.indices.v, 3 * k - 2, 3 * k)]
        ELSE [k \in 1..(Len(PositionsOf(mesh)) \div 3) |-> <<3 * k - 3, 3 * k - 2, 3 * k - 1>>]

\* triangle k of mesh m, projected, contains the cursor of the last pick
Contains(m, k) ==
    LET tri == SpecTriangles(m)[k]
        ct == MatMul(MatMul(ProjectionMatrix, ViewMatrix), meshes[m].transform)
        pt == [i \in 1..3 |-> transform_point3(ct, PositionsOf(meshes[m])[tri[i] + 1])]
    IN  InTriangle(ndc_cursor, Vec2(pt[1][1], pt[1][2]), Vec2(pt[2][1], pt[2][2]),
                   Vec2(pt[3][1], pt[3][2]))

Containing ==
    {t \in (1..Len(meshes)) \X (1..6) : t[2] <= Len(SpecTriangles(t[1])) /\ Contains(t[1], t[2])}
Precedes(t, u) == t[1] < u[1] \/ (t[1] = u[1] /\ t[2] <= u[2])
First(S) == CHOOSE t \in S : \A u \in S : Precedes(t, u)

\* every mesh is a triangle list with positions and an index list of complete triples
WellFormedScene ==
    \A m \in 1..Len(meshes) :
        /\ IsTriangleList(meshes[m])
        /\ HasPositions(meshes[m])
        /\ meshes[m].indices.some
        /\ Len(meshes[m].indices.v) % 3 = 0

\* C3: a run of cursor_pick reports at most one hit, and evaluates no
\* triangle after the one it reports.
C3_AtMostOneHit ==
    Evaluated =>
        /\ Len(hits) <= 1
        /\ hits # <<>> => Last(tested) = hits[1]

\* C4: when several triangles contain the cursor the result is the first of
\* them in iteration order, in the same mesh or not; when none does, no hit.
\* Stated of the scenes whose meshes are all well formed.
C4_FirstInIterationOrder ==
    (Evaluated /\ WellFormedScene) =>
        hits = IF Containing = {} THEN <<>> ELSE <<First(Containing)>>

\* C5: a mesh that is not a triangle list is skipped and nothing else: a
\* containing triangle of a later triangle-list mesh is still reported.
\* Stated of an indexed mesh j that only meshes of another topology precede.
C5_LaterMeshStillTested ==
    Evaluated =>
        \A j \in 2..Len(meshes) :
            (/\ \A m \in 1..(j - 1) : ~IsTriangleList(meshes[m])
             /\ meshes[j].indices.some
             /\ \E k \in 1..Len(SpecTriangles(j)) : Contains(j, k))
            => \E h \in 1..Len(hits) : hits[h][1] = j

\* C6: a trailing chunk of one or two indices is never tested against the
\* cursor and never produces a hit.
C6_IncompleteChunkSkipped ==
    Evaluated =>
        /\ \A t \in 1..Len(tested) :
              Len(Chunk(meshes[tested[t][1]].indices.v, tested[t][2])) = 3
        /\ \A h \in 1..Len(hits) :
              Len(Chunk(meshes[hits[h][1]].indices.v, hits[h][2])) = 3

\* C7: a mesh without a position attribute is skipped: the pick does not
\* abort, the mesh produces no hit, and the meshes after it are still tested.
\* Stated of the scenes whose index lists are all made of complete triples.
C7_NoPositionsSkipped ==
    (Evaluated /\ \A m \in 1..Len(meshes) : Len(meshes[m].indices.v) % 3 = 0) =>
        /\ ~panicked
        /\ \A h \in 1..Len(hits) : HasPositions(meshes[hits[h][1]])

\* C8: a triangle-list mesh without an index list has its positions taken in
\* consecutive triples and tested: a cursor inside such a triangle is a hit.
\* Stated of the first mesh of the scene.
C8_NoIndexListTested ==
    (/\ Evaluated
     /\ meshes # <<>>
     /\ IsTriangleList(meshes[1])
     /\ HasPositions(meshes[1])
     /\ ~meshes[1].indices.some
     /\ \E k \in 1..Len(SpecTriangles(1)) : Contains(1, k))
    => (hits # <<>> /\ hits[1][1] = 1)

\* C20: when no camera entity is bound to the pivot, so that no view and no
\* projection transform is available, a pick reports no hit, for every cursor
\* position and every set of meshes.  Stated of the scenes whose meshes are
\* all well formed.
C20_NoCameraNoHit ==
    (Evaluated /\ ~cam_entity /\ WellFormedScene) => hits = <<>>

====
